---- MODULE Spec2Model ----
(***************************************************************************)
(* Server-side core of socket.io: Server (lib/index.js), Client            *)
(* (lib/client.js), Namespace (lib/namespace.js), Socket (lib/socket.js).  *)
(* One action of the model is one run-to-completion callback of the        *)
(* single-threaded event loop: an engine event, a process.nextTick         *)
(* callback, or a call of the public API by user code.                     *)
(***************************************************************************)
EXTENDS Integers, Sequences, FiniteSets, TLC

\* ------------------------------------------------------------------ bounds
MaxClients == 2      \* engine connections the server may accept
MaxPeers == 1        \* engine connections accepted under Spec
MaxConnects == 2     \* CONNECT packets decoded, all clients together
MaxUse == 1          \* calls of Namespace.use
MaxEmits == 2        \* calls of Socket.emit / Namespace.emit that build a packet
MaxEvents == 2       \* EVENT / BINARY_EVENT packets decoded, all clients together
MaxAdapters == 1     \* calls of Server.adapter(factory) after construction
MaxPending == 3      \* process.nextTick callbacks queued at a time under SpecRooms

Clients == 1..MaxClients
NspNames == {"/", "/a", "/b"}      \* names a peer may ask for
NspOrder == <<"/", "/a", "/b">>    \* key order used when a map is iterated
MwKinds == {"next", "nextErr"}     \* what a middleware does when it is called
UserRooms == {"r"}
NoSock == 0
NoId == -1
NoErr == ""

\* Room names: a user room, or the room named after socket id <nsp>#<c>.
UserRoom(r) == <<"room", r>>
IdRoom(c) == <<"id", ToString(c)>>
Rooms == {UserRoom(r) : r \in UserRooms} \cup {IdRoom(c) : c \in Clients}

VARIABLES
  registered,     \* Server.nsps: the names that have a Namespace
  fns,            \* Namespace.fns
  nspSockets,     \* Namespace.sockets, id <nsp>#<c> keyed by c
  connected,      \* Namespace.connected
  ids,            \* Namespace.ids
  nspRooms,       \* Namespace.rooms (transient; <<>> is undefined)
  nspFlags,       \* Namespace.flags (transient; <<>> is undefined)
  adapter,        \* the Adapter objects made for each namespace, oldest
                  \* first, each with its room membership; Namespace.adapter
                  \* is the last one
  conn,           \* conn.readyState per client ("none" before the connection)
  listening,      \* Client.setup done and Client.destroy not yet
  decoder,        \* the Client's decoder is not destroyed
  sockets,        \* Client.sockets
  nsps,           \* Client.nsps
  connectBuffer,  \* Client.connectBuffer
  socks,          \* every Socket object constructed so far
  ticks,          \* callbacks queued with process.nextTick
  ackFns,         \* the callbacks Socket.ack has made, each with its `sent`
  encoding,       \* packets the encoder has taken and not yet called back for
  step,           \* the last callback run: what it wrote and emitted
  nConnects, nUse, nEmits, nEvents

vars == <<registered, fns, nspSockets, connected, ids, nspRooms, nspFlags,
          adapter, conn, listening, decoder, sockets, nsps, connectBuffer,
          socks, ticks, ackFns, encoding, step, nConnects, nUse, nEmits,
          nEvents>>

\* The program state as one record, threaded through the handlers, with
\* what the running callback has done so far (out, ev, closes, thrown,
\* caught, late: the frames written to a transport that was not open) and
\* what it finds around it: which transports are writable, and whether the
\* encoder calls back within encode or later.
State ==
  [registered |-> registered, fns |-> fns, nspSockets |-> nspSockets,
   connected |-> connected, ids |-> ids, nspRooms |-> nspRooms,
   nspFlags |-> nspFlags, adapter |-> adapter, conn |-> conn,
   listening |-> listening, decoder |-> decoder, sockets |-> sockets,
   nsps |-> nsps, connectBuffer |-> connectBuffer, socks |-> socks,
   ticks |-> ticks, ackFns |-> ackFns, encoding |-> encoding,
   out |-> <<>>, ev |-> <<>>, closes |-> <<>>, thrown |-> NoErr, caught |-> NoErr,
   late |-> 0, writable |-> [c \in Clients |-> TRUE], defer |-> FALSE]

NoSockets == [n \in NspNames |-> NoSock]
Range(seq) == {seq[i] : i \in 1..Len(seq)}

Pkt(type, nsp, data, id) == [type |-> type, nsp |-> nsp, data |-> data, id |-> id]
NoPkt == Pkt("", "", <<>>, NoId)

\* A local event: its name, the socket it is about, its argument (for an ack
\* callback also the ack id), and what held when the listeners ran: the
\* socket's connected flag, its presence in Namespace.sockets, in
\* Namespace.connected, in the adapter room named after its id and in the
\* Client's two maps, and the number of frames the callback had written by
\* then.
Event(name, s, arg, id, live, inNsp, inConnected, inRoom, inClient, written) ==
  [name |-> name, sock |-> s, arg |-> arg, id |-> id, live |-> live,
   inNsp |-> inNsp, inConnected |-> inConnected, inRoom |-> inRoom,
   inClient |-> inClient, written |-> written]

EmittedAck(S, name, s, arg, id) ==
  LET n == S.socks[s].nsp
      c == S.socks[s].client
  IN [S EXCEPT !.ev = Append(@,
        Event(name, s, arg, id, S.socks[s].connected, S.nspSockets[n][c] = s,
              S.connected[n][c] = s,
              <<IdRoom(c), c>> \in S.adapter[n][Len(S.adapter[n])],
              S.sockets[c][n] = s /\ S.nsps[c][n] = s, Len(S.out)))]

Emitted(S, name, s, arg) == EmittedAck(S, name, s, arg, NoId)

\* ----------------------------------------------------------------- Client
\* conn.write(frame): one frame on the transport of client c.
Write(S, c, pkt, compress) ==
  [S EXCEPT !.out = Append(@, [c |-> c, pkt |-> pkt, compress |-> compress]),
            !.late = IF S.conn[c] = "open" THEN @ ELSE @ + 1]

\* writeToEngine of Client.packet: a volatile packet is written only while
\* the transport is writable.
WriteToEngine(S, c, pkt, opts) ==
  IF opts.volatile /\ ~S.writable[c] THEN S ELSE Write(S, c, pkt, opts.compress)

\* Client.packet: while the transport is open, a pre-encoded packet is
\* written at once and any other packet is handed to the encoder, which
\* calls writeToEngine back, within encode or later.
ClientPacket(S, c, pkt, opts) ==
  IF S.conn[c] = "open"
  THEN IF ~opts.preEncoded /\ S.defer
       THEN [S EXCEPT !.encoding = Append(@, [c |-> c, pkt |-> pkt, opts |-> opts])]
       ELSE WriteToEngine(S, c, pkt, opts)
  ELSE S

NoOpts == [volatile |-> FALSE, compress |-> FALSE, preEncoded |-> FALSE]

\* Client.remove that forgets the socket's entries.
ClientRemoveNothing(S, s) == S

\* Client.remove: drops the entry of socket.id, whichever object holds it.
ClientRemove(S, s) ==
  LET c == S.socks[s].client
      n == S.socks[s].nsp
  IN IF S.sockets[c][n] # NoSock
     THEN [S EXCEPT !.sockets[c][n] = NoSock, !.nsps[c][n] = NoSock]
     ELSE S

\* Client.destroy
ClientDestroy(S, c) == [S EXCEPT !.listening[c] = FALSE]

\* --------------------------------------------------------------- Namespace
\* Namespace.remove
NamespaceRemove(S, s) ==
  [S EXCEPT !.nspSockets[S.socks[s].nsp][S.socks[s].client] = NoSock]

\* ----------------------------------------------------------------- Adapter
\* Namespace.adapter: the Adapter that initAdapter made last.
NspAdapter(S, n) == Len(S.adapter[n])

\* An Adapter object is named by its namespace n and its number a there.
\* adapter.add(id, room, fn): membership now, fn on the next tick.
AdapterAdd(S, n, a, c, room, s) ==
  [S EXCEPT !.adapter[n][a] = @ \cup {<<room, c>>},
            !.ticks = Append(@, [kind |-> "joined", sock |-> s, room |-> room,
                                 err |-> NoErr])]

\* adapter.del(id, room, fn): membership now, fn on the next tick.
AdapterDel(S, n, a, c, room, s) ==
  [S EXCEPT !.adapter[n][a] = @ \ {<<room, c>>},
            !.ticks = Append(@, [kind |-> "left", sock |-> s, room |-> room,
                                 err |-> NoErr])]

\* adapter.delAll(id)
AdapterDelAll(S, n, a, c) ==
  [S EXCEPT !.adapter[n][a] = {m \in @ : m[2] # c}]

\* ------------------------------------------------------------------ Socket
\* new Socket(nsp, client), a the Adapter the namespace has at that time.
\* Besides the object's fields the record keeps
\* whether onconnect has run, how often 'disconnect' was emitted, the ids
\* whose ack callback was called, and the ids of the packets that emit has
\* written to the transport with an ack id.
NewSocket(n, c, a) ==
  [nsp |-> n, client |-> c, adapter |-> a, connected |-> TRUE,
   disconnected |-> FALSE,
   rooms |-> {}, acks |-> {}, _rooms |-> <<>>, flags |-> <<>>,
   onconnect |-> FALSE, disconnects |-> 0, acked |-> <<>>, sent |-> {}]

\* Socket.packet
SocketPacket(S, s, pkt, opts) ==
  ClientPacket(S, S.socks[s].client, [pkt EXCEPT !.nsp = S.socks[s].nsp], opts)

\* Socket.join
SocketJoin(S, s, room) ==
  IF room \in S.socks[s].rooms THEN S
  ELSE AdapterAdd(S, S.socks[s].nsp, S.socks[s].adapter, S.socks[s].client, room, s)

\* Socket.leave
SocketLeave(S, s, room) ==
  AdapterDel(S, S.socks[s].nsp, S.socks[s].adapter, S.socks[s].client, room, s)

\* Socket.leaveAll
SocketLeaveAll(S, s) ==
  [AdapterDelAll(S, S.socks[s].nsp, S.socks[s].adapter, S.socks[s].client)
     EXCEPT !.socks[s].rooms = {}]

\* Socket.onconnect
SocketOnconnect(S, s) ==
  LET n == S.socks[s].nsp
      c == S.socks[s].client
      S1 == [S EXCEPT !.connected[n][c] = s, !.socks[s].onconnect = TRUE]
      S2 == SocketJoin(S1, s, IdRoom(c))
  IN SocketPacket(S2, s, Pkt("CONNECT", n, <<>>, NoId), NoOpts)

\* Socket.onclose without its guard on the connected flag.
SocketOncloseUnguarded(S, s, reason) ==
  LET S1 == SocketLeaveAll(S, s)
      S2 == NamespaceRemove(S1, s)
      S3 == ClientRemove(S2, s)
      S4 == [S3 EXCEPT !.socks[s].connected = FALSE,
                       !.socks[s].disconnected = TRUE,
                       !.connected[S.socks[s].nsp][S.socks[s].client] = NoSock,
                       !.socks[s].disconnects = @ + 1]
  IN Emitted(S4, "disconnect", s, reason)

\* Socket.onclose that leaves the socket's entry in Namespace.connected.
SocketOncloseKeepsEntry(S, s, reason) ==
  IF ~S.socks[s].connected THEN S
  ELSE LET S1 == SocketLeaveAll(S, s)
           S2 == NamespaceRemove(S1, s)
           S3 == ClientRemove(S2, s)
           S4 == [S3 EXCEPT !.socks[s].connected = FALSE,
                            !.socks[s].disconnected = TRUE,
                            !.socks[s].disconnects = @ + 1]
       IN Emitted(S4, "disconnect", s, reason)

\* Socket.onclose
SocketOnclose(S, s, reason) ==
  IF ~S.socks[s].connected THEN S
  ELSE LET S1 == SocketLeaveAll(S, s)
           S2 == NamespaceRemove(S1, s)
           S3 == ClientRemove(S2, s)
           S4 == [S3 EXCEPT !.socks[s].connected = FALSE,
                            !.socks[s].disconnected = TRUE,
                            !.connected[S.socks[s].nsp][S.socks[s].client] = NoSock,
                            !.socks[s].disconnects = @ + 1]
       IN Emitted(S4, "disconnect", s, reason)

\* Socket.error
SocketError(S, s, err) ==
  SocketPacket(S, s, Pkt("ERROR", S.socks[s].nsp, <<err>>, NoId), NoOpts)

\* Socket.onerror: the error goes to the 'error' listeners when there are
\* some, and to console.error otherwise.
SocketOnerror(S, s, err, listeners) ==
  IF listeners THEN Emitted(S, "error", s, err) ELSE S

\* Socket.disconnect(), the branch without close.
SocketDisconnectOnly(S, s) ==
  IF ~S.socks[s].connected THEN S
  ELSE SocketOnclose(
         SocketPacket(S, s, Pkt("DISCONNECT", S.socks[s].nsp, <<>>, NoId), NoOpts),
         s, "server namespace disconnect")

\* ------------------------------------------------- Client, closing paths
\* The sockets Object.keys(this.sockets) yields, taken before the loop runs.
RECURSIVE KeysOf(_, _)
KeysOf(m, order) ==
  IF order = <<>> THEN <<>>
  ELSE (IF m[Head(order)] # NoSock THEN <<m[Head(order)]>> ELSE <<>>)
       \o KeysOf(m, Tail(order))

RECURSIVE DisconnectEach(_, _)
DisconnectEach(S, ss) ==
  IF ss = <<>> THEN S
  ELSE DisconnectEach(SocketDisconnectOnly(S, Head(ss)), Tail(ss))

RECURSIVE OncloseEach(_, _, _)
OncloseEach(S, ss, reason) ==
  IF ss = <<>> THEN S
  ELSE OncloseEach(SocketOnclose(S, Head(ss), reason), Tail(ss), reason)

RECURSIVE OnerrorEach(_, _, _, _)
OnerrorEach(S, ss, err, listeners) ==
  IF ss = <<>> THEN S
  ELSE OnerrorEach(SocketOnerror(S, Head(ss), err, listeners), Tail(ss), err, listeners)

\* Client.onclose
ClientOnclose(S, c, reason) ==
  LET S1 == ClientDestroy([S EXCEPT !.closes = Append(@,
                            [c |-> c, reason |-> reason,
                             had |-> Range(KeysOf(S.sockets[c], NspOrder)),
                             written |-> Len(S.out)])], c)
      S2 == OncloseEach(S1, KeysOf(S1.sockets[c], NspOrder), reason)
  IN [S2 EXCEPT !.sockets[c] = NoSockets, !.decoder[c] = FALSE]

\* Client.close
ClientClose(S, c) ==
  IF S.conn[c] = "open"
  THEN ClientOnclose([S EXCEPT !.conn[c] = "closing"], c, "forced server close")
  ELSE S

\* Client.disconnect
ClientDisconnect(S, c) ==
  LET S1 == DisconnectEach(S, KeysOf(S.sockets[c], NspOrder))
  IN ClientClose([S1 EXCEPT !.sockets[c] = NoSockets], c)

\* Client.onerror
ClientOnerror(S, c, err, listeners) ==
  ClientOnclose(OnerrorEach(S, KeysOf(S.sockets[c], NspOrder), err, listeners),
                c, "client error")

\* Socket.disconnect(close)
SocketDisconnect(S, s, close) ==
  IF ~S.socks[s].connected THEN S
  ELSE IF close THEN ClientDisconnect(S, S.socks[s].client)
       ELSE SocketDisconnectOnly(S, s)

\* ------------------------------------------------------- Adapter.broadcast
\* The ids a broadcast goes to: the members of the listed rooms, or every
\* socket of the namespace when no room is listed, without the excepted ids.
BroadcastTargets(S, n, a, opts) ==
  {c \in Clients :
     /\ IF opts.rooms # <<>>
        THEN \E r \in Range(opts.rooms) : <<r, c>> \in S.adapter[n][a]
        ELSE S.connected[n][c] # NoSock
     /\ c \notin opts.except
     /\ S.connected[n][c] # NoSock}

RECURSIVE BroadcastEach(_, _, _, _, _)
BroadcastEach(S, n, pkt, popts, todo) ==
  IF todo = {} THEN S
  ELSE LET c == CHOOSE x \in todo : \A y \in todo : x <= y
       IN BroadcastEach(SocketPacket(S, S.connected[n][c], pkt, popts),
                        n, pkt, popts, todo \ {c})

\* adapter.broadcast(packet, opts): the packet is encoded once and handed to
\* each target's Socket.packet as preEncoded.
AdapterBroadcast(S, n, a, pkt, opts) ==
  BroadcastEach(S, n, [pkt EXCEPT !.nsp = n],
                [volatile |-> "volatile" \in opts.flags,
                 compress |-> "compress" \in opts.flags,
                 preEncoded |-> TRUE],
                BroadcastTargets(S, n, a, opts))

\* ------------------------------------------------------------ Socket.emit
Events == {"error", "connect", "disconnect", "newListener", "removeListener"}
Args == {"text", "binary"}
hasBin(args) == "binary" \in Range(args)

\* this.flags || {}
FlagsOf(f) == IF f = <<>> THEN {} ELSE f[1]

\* Socket.emit that broadcasts without excepting the sender.
SocketEmitNoExcept(S, s, ev, arg, cb) ==
  IF ev \in Events THEN Emitted(S, ev, s, arg)
  ELSE LET sk == S.socks[s]
           n == sk.nsp
           flags == FlagsOf(sk.flags)
           bcast == sk._rooms # <<>> \/ "broadcast" \in flags
           type == IF hasBin(<<ev, arg>>) THEN "BINARY_EVENT" ELSE "EVENT"
       IN IF cb /\ bcast
          THEN [S EXCEPT !.thrown = "Callbacks are not supported when broadcasting"]
          ELSE LET S1 == IF cb THEN [S EXCEPT !.socks[s].acks = @ \cup {S.ids[n]},
                                              !.ids[n] = @ + 1]
                         ELSE S
                   pkt == Pkt(type, "", <<ev, arg>>, IF cb THEN S.ids[n] ELSE NoId)
                   S2 == IF bcast
                         THEN AdapterBroadcast(S1, n, sk.adapter, pkt,
                                [except |-> {}, rooms |-> sk._rooms, flags |-> flags])
                         ELSE SocketPacket(S1, s, pkt,
                                [volatile |-> "volatile" \in flags,
                                 compress |-> "compress" \in flags,
                                 preEncoded |-> FALSE])
               IN [S2 EXCEPT !.socks[s]._rooms = <<>>, !.socks[s].flags = <<>>,
                             !.socks[s].sent =
                               IF cb /\ Len(S2.out) > Len(S1.out)
                               THEN @ \cup {S.ids[n]} ELSE @]

\* Socket.emit(ev, arg[, cb])
SocketEmit(S, s, ev, arg, cb) ==
  IF ev \in Events THEN Emitted(S, ev, s, arg)
  ELSE LET sk == S.socks[s]
           n == sk.nsp
           flags == FlagsOf(sk.flags)
           bcast == sk._rooms # <<>> \/ "broadcast" \in flags
           type == IF hasBin(<<ev, arg>>) THEN "BINARY_EVENT" ELSE "EVENT"
       IN IF cb /\ bcast
          THEN [S EXCEPT !.thrown = "Callbacks are not supported when broadcasting"]
          ELSE LET S1 == IF cb THEN [S EXCEPT !.socks[s].acks = @ \cup {S.ids[n]},
                                              !.ids[n] = @ + 1]
                         ELSE S
                   pkt == Pkt(type, "", <<ev, arg>>, IF cb THEN S.ids[n] ELSE NoId)
                   S2 == IF bcast
                         THEN AdapterBroadcast(S1, n, sk.adapter, pkt,
                                [except |-> {sk.client}, rooms |-> sk._rooms,
                                 flags |-> flags])
                         ELSE SocketPacket(S1, s, pkt,
                                [volatile |-> "volatile" \in flags,
                                 compress |-> "compress" \in flags,
                                 preEncoded |-> FALSE])
               IN [S2 EXCEPT !.socks[s]._rooms = <<>>, !.socks[s].flags = <<>>,
                             !.socks[s].sent =
                               IF cb /\ Len(S2.out) > Len(S1.out)
                               THEN @ \cup {S.ids[n]} ELSE @]

\* Socket.to / Socket.in
SocketTo(S, s, name) ==
  IF name \in Range(S.socks[s]._rooms) THEN S
  ELSE [S EXCEPT !.socks[s]._rooms = Append(@, name)]

\* The flag getters json, volatile, broadcast.
SocketFlag(S, s, flag) ==
  [S EXCEPT !.socks[s].flags = <<FlagsOf(@) \cup {flag}>>]

\* Socket.compress(compress)
SocketCompress(S, s, compress) ==
  [S EXCEPT !.socks[s].flags =
     <<IF compress THEN FlagsOf(@) \cup {"compress"} ELSE FlagsOf(@) \ {"compress"}>>]

\* Socket.onack that keeps the callback after calling it.
SocketOnackKeeps(S, s, pkt) ==
  IF pkt.id \in S.socks[s].acks
  THEN [EmittedAck(S, "ack", s, pkt.data[1], pkt.id)
          EXCEPT !.socks[s].acked = Append(@, pkt.id)]
  ELSE S

\* Socket.onack
SocketOnack(S, s, pkt) ==
  IF pkt.id \in S.socks[s].acks
  THEN [EmittedAck(S, "ack", s, pkt.data[1], pkt.id)
          EXCEPT !.socks[s].acks = @ \ {pkt.id},
                 !.socks[s].acked = Append(@, pkt.id)]
  ELSE S

\* Socket.ondisconnect
SocketOndisconnect(S, s) == SocketOnclose(S, s, "client namespace disconnect")

\* ---------------------------------------------------------- Namespace.emit
EventsArr == {"connect", "connection", "newListener"}

\* Namespace.emit(ev, arg[, cb])
NamespaceEmit(S, n, ev, arg, cb) ==
  IF ev \in EventsArr
  THEN [S EXCEPT !.ev = Append(@, Event(ev, NoSock, arg, NoId, FALSE, FALSE, FALSE,
                                       FALSE, FALSE, Len(S.out)))]
  ELSE IF cb
  THEN [S EXCEPT !.thrown = "Callbacks are not supported when broadcasting"]
  ELSE LET type == IF hasBin(<<ev, arg>>) THEN "BINARY_EVENT" ELSE "EVENT"
           S1 == AdapterBroadcast(S, n, NspAdapter(S, n),
                   Pkt(type, "", <<ev, arg>>, NoId),
                   [except |-> {}, rooms |-> S.nspRooms[n],
                    flags |-> FlagsOf(S.nspFlags[n])])
       IN [S1 EXCEPT !.nspRooms[n] = <<>>, !.nspFlags[n] = <<>>]

\* Namespace.to / Namespace.in
NamespaceTo(S, n, name) ==
  IF name \in Range(S.nspRooms[n]) THEN S
  ELSE [S EXCEPT !.nspRooms[n] = Append(@, name)]

\* The flag getters json, volatile of a Namespace.
NamespaceFlag(S, n, flag) ==
  [S EXCEPT !.nspFlags[n] = <<FlagsOf(@) \cup {flag}>>]

\* ------------------------------------------------------------- admission
\* Namespace.run: with no middleware the callback runs at once; with some,
\* fns.map(cb, ...) reads the undeclared name cb and throws before any
\* middleware is called.
NamespaceRun(S, n, s) ==
  IF Len(S.fns[n]) = 0
  THEN [S EXCEPT !.ticks = Append(@, [kind |-> "admit", sock |-> s,
                                      room |-> IdRoom(S.socks[s].client),
                                      err |-> NoErr])]
  ELSE [S EXCEPT !.thrown = "ReferenceError: cb is not defined"]

\* Namespace.add, up to the return of run.
NamespaceAdd(S, n, c) ==
  NamespaceRun([S EXCEPT !.socks = Append(@, NewSocket(n, c, NspAdapter(S, n)))],
               n, Len(S.socks) + 1)

\* Client.connect that does not look the name up first.
ClientConnectUnchecked(S, c, name) ==
  IF name # "/" /\ S.nsps[c]["/"] = NoSock
  THEN [S EXCEPT !.connectBuffer[c] = Append(@, name)]
  ELSE NamespaceAdd(S, name, c)

\* Client.connect
ClientConnect(S, c, name) ==
  IF name \notin S.registered
  THEN ClientPacket(S, c, Pkt("ERROR", name, <<"Invalid namespace">>, NoId), NoOpts)
  ELSE IF name # "/" /\ S.nsps[c]["/"] = NoSock
  THEN [S EXCEPT !.connectBuffer[c] = Append(@, name)]
  ELSE NamespaceAdd(S, name, c)

\* connectBuffer.forEach(this.connect, this): an exception ends the loop.
RECURSIVE ConnectEach(_, _, _)
ConnectEach(S, c, names) ==
  IF names = <<>> \/ S.thrown # NoErr THEN S
  ELSE ConnectEach(ClientConnect(S, c, Head(names)), c, Tail(names))

\* The callback Client.connect hands to Namespace.add.
OnAdmit(S, s) ==
  LET n == S.socks[s].nsp
      c == S.socks[s].client
      S1 == [S EXCEPT !.sockets[c][n] = s, !.nsps[c][n] = s]
  IN IF n = "/" /\ Len(S1.connectBuffer[c]) > 0
     THEN LET S2 == ConnectEach(S1, c, S1.connectBuffer[c])
          IN IF S2.thrown # NoErr THEN S2
             ELSE [S2 EXCEPT !.connectBuffer[c] = <<>>]
     ELSE S1

\* What a 'connect' listener of the namespace does with the socket it gets.
Handlers == {"none", "emit", "disconnect"}
Listener(S, s, h) ==
  CASE h = "none" -> S
    [] h = "emit" -> SocketEmit(S, s, "x", "text", FALSE)
    [] h = "disconnect" -> SocketDisconnect(S, s, FALSE)

\* The process.nextTick callback of Namespace.add without its look at the
\* transport's readyState.
AdmitTickUnchecked(S, t, h) ==
  LET s == t.sock
      n == S.socks[s].nsp
      c == S.socks[s].client
  IN IF t.err # NoErr THEN SocketError(S, s, t.err)
     ELSE LET S1 == [S EXCEPT !.nspSockets[n][c] = s]
              S2 == SocketOnconnect(S1, s)
              S3 == OnAdmit(S2, s)
          IN IF S3.thrown # NoErr THEN S3
             ELSE LET S4 == Listener(Emitted(S3, "connect", s, ""), s, h)
                  IN Emitted(S4, "connection", s, "")

\* The process.nextTick callback of Namespace.add that fires the user-set
\* events before the socket's onconnect.
AdmitTickEventsFirst(S, t, h) ==
  LET s == t.sock
      n == S.socks[s].nsp
      c == S.socks[s].client
  IN IF S.conn[c] # "open" THEN S
     ELSE IF t.err # NoErr THEN SocketError(S, s, t.err)
     ELSE LET S1 == [S EXCEPT !.nspSockets[n][c] = s]
              S2 == Listener(Emitted(S1, "connect", s, ""), s, h)
              S3 == Emitted(S2, "connection", s, "")
          IN OnAdmit(SocketOnconnect(S3, s), s)

\* The process.nextTick callback of Namespace.add.
AdmitTick(S, t, h) ==
  LET s == t.sock
      n == S.socks[s].nsp
      c == S.socks[s].client
  IN IF S.conn[c] # "open" THEN S
     ELSE IF t.err # NoErr THEN SocketError(S, s, t.err)
     ELSE LET S1 == [S EXCEPT !.nspSockets[n][c] = s]
              S2 == SocketOnconnect(S1, s)
              S3 == OnAdmit(S2, s)
          IN IF S3.thrown # NoErr THEN S3
             ELSE LET S4 == Listener(Emitted(S3, "connect", s, ""), s, h)
                  IN Emitted(S4, "connection", s, "")

\* The adapter.del callback of Socket.leave.
LeftTick(S, t) ==
  IF t.err # NoErr THEN S
  ELSE [S EXCEPT !.socks[t.sock].rooms = @ \ {t.room}]

\* The adapter.add callback of Socket.join.
JoinedTick(S, t) ==
  IF t.err # NoErr THEN S
  ELSE [S EXCEPT !.socks[t.sock].rooms = @ \cup {t.room}]

\* ------------------------------------------------ chained modifiers + emit
\* User code chains its modifiers and the emit in one synchronous expression,
\* a.to("r").volatile.emit(...): a chain is the sequence of modifier calls.
ToMod(room) == [kind |-> "to", room |-> room, flag |-> ""]
FlagMod(flag) == [kind |-> "flag", room |-> <<"", "">>, flag |-> flag]
CompressMod(b) == [kind |-> "compress", room |-> <<"", "">>, flag |-> b]
RECURSIVE SocketChain(_, _, _)
SocketChain(S, s, mods) ==
  IF mods = <<>> THEN S
  ELSE LET m == Head(mods)
           S1 == CASE m.kind = "to" -> SocketTo(S, s, m.room)
                   [] m.kind = "flag" -> SocketFlag(S, s, m.flag)
                   [] m.kind = "compress" -> SocketCompress(S, s, m.flag = "true")
       IN SocketChain(S1, s, Tail(mods))

RECURSIVE NamespaceChain(_, _, _)
NamespaceChain(S, n, mods) ==
  IF mods = <<>> THEN S
  ELSE LET m == Head(mods)
           S1 == CASE m.kind = "to" -> NamespaceTo(S, n, m.room)
                   [] m.kind = "flag" -> NamespaceFlag(S, n, m.flag)
       IN NamespaceChain(S1, n, Tail(mods))

\* ----------------------------------------------------------------- actions
\* User code runs x.<modifiers>.emit(ev, arg[, cb]) on a socket or a
\* namespace; w tells which transports are writable at that time.
EmitCall(mods, ev, arg, cb, w) ==
  [mods |-> mods, ev |-> ev, arg |-> arg, cb |-> cb, w |-> w]

AllWritable == [c \in Clients |-> TRUE]
NoneWritable == [c \in Clients |-> FALSE]
NoCall == EmitCall(<<>>, "", "", FALSE, AllWritable)

\* What the last callback was (its name, client, socket, namespace, the
\* packet it decoded, the emit user code ran, the ack callback it called) and
\* what it did: the frames
\* written, the local events emitted, the runs of Client.onclose, the
\* exception that left it uncaught and the one Client.ondata caught.
Op(name, c, s, n) ==
  [name |-> name, c |-> c, s |-> s, n |-> n, pkt |-> NoPkt, call |-> NoCall,
   fn |-> 0]
OpPkt(c, pkt) ==
  [name |-> pkt.type, c |-> c, s |-> NoSock, n |-> pkt.nsp, pkt |-> pkt,
   call |-> NoCall, fn |-> 0]
NoStep == [op |-> Op("init", 0, NoSock, ""), out |-> <<>>, ev |-> <<>>,
           closes |-> <<>>, thrown |-> NoErr, caught |-> NoErr, late |-> 0]

Commit(S, op) ==
  /\ registered' = S.registered
  /\ fns' = S.fns
  /\ nspSockets' = S.nspSockets
  /\ connected' = S.connected
  /\ ids' = S.ids
  /\ nspRooms' = S.nspRooms
  /\ nspFlags' = S.nspFlags
  /\ adapter' = S.adapter
  /\ conn' = S.conn
  /\ listening' = S.listening
  /\ decoder' = S.decoder
  /\ sockets' = S.sockets
  /\ nsps' = S.nsps
  /\ connectBuffer' = S.connectBuffer
  /\ socks' = S.socks
  /\ ticks' = S.ticks
  /\ ackFns' = S.ackFns
  /\ encoding' = S.encoding
  /\ step' = [op |-> op, out |-> S.out, ev |-> S.ev, closes |-> S.closes,
              thrown |-> S.thrown, caught |-> S.caught, late |-> S.late]

Init ==
  /\ registered = {"/"}
  /\ fns = [n \in NspNames |-> <<>>]
  /\ nspSockets = [n \in NspNames |-> [c \in Clients |-> NoSock]]
  /\ connected = [n \in NspNames |-> [c \in Clients |-> NoSock]]
  /\ ids = [n \in NspNames |-> 0]
  /\ nspRooms = [n \in NspNames |-> <<>>]
  /\ nspFlags = [n \in NspNames |-> <<>>]
  /\ adapter = [n \in NspNames |-> <<{}>>]
  /\ conn = [c \in Clients |-> "none"]
  /\ listening = [c \in Clients |-> FALSE]
  /\ decoder = [c \in Clients |-> FALSE]
  /\ sockets = [c \in Clients |-> NoSockets]
  /\ nsps = [c \in Clients |-> NoSockets]
  /\ connectBuffer = [c \in Clients |-> <<>>]
  /\ socks = <<>>
  /\ ticks = <<>>
  /\ ackFns = <<>>
  /\ encoding = <<>>
  /\ step = NoStep
  /\ nConnects = 0
  /\ nUse = 0
  /\ nEmits = 0
  /\ nEvents = 0

\* The server is set up -- its namespaces created, their middleware
\* registered -- before the engine hands it the first connection.
Setup == \A c \in Clients : conn[c] = "none"

\* Server.of(name) for a name that has no Namespace yet.
ServerOf(n) ==
  /\ Setup
  /\ n \notin registered
  /\ n = "/b" => "/a" \in registered
  /\ Commit([State EXCEPT !.registered = @ \cup {n}], Op("of", 0, NoSock, n))
  /\ UNCHANGED <<nConnects, nUse, nEmits, nEvents>>

\* Namespace.use(fn)
NamespaceUse(n, k) ==
  /\ Setup
  /\ n \in registered
  /\ nUse < MaxUse
  /\ Commit([State EXCEPT !.fns[n] = Append(@, k)], Op("use", 0, NoSock, n))
  /\ nUse' = nUse + 1
  /\ UNCHANGED <<nConnects, nEmits, nEvents>>

\* Server.onconnection: the engine accepts transport c.
ServerOnconnection(c) ==
  /\ conn[c] = "none"
  /\ \A d \in Clients : d < c => conn[d] # "none"
  /\ Commit(ClientConnect([State EXCEPT !.conn[c] = "open", !.listening[c] = TRUE,
                                        !.decoder[c] = TRUE], c, "/"),
            Op("onconnection", c, NoSock, "/"))
  /\ UNCHANGED <<nConnects, nUse, nEmits, nEvents>>

\* Client.ondata, when the frame decodes to anything: an exception under
\* decoder.add goes to Client.onerror.
Ondata(S, c, listeners) ==
  IF S.thrown # NoErr
  THEN ClientOnerror([S EXCEPT !.thrown = NoErr, !.caught = S.thrown], c,
                     S.thrown, listeners)
  ELSE S

\* A frame that decodes to CONNECT: Client.ondecoded calls Client.connect.
OndataConnect(c, name) ==
  /\ conn[c] = "open" /\ listening[c]
  /\ nConnects < MaxConnects
  /\ LET S == ClientConnect(State, c, name)
     IN \E l \in (IF S.thrown # NoErr THEN BOOLEAN ELSE {FALSE}) :
          Commit(Ondata(S, c, l), Op("CONNECT", c, NoSock, name))
  /\ nConnects' = nConnects + 1
  /\ UNCHANGED <<nUse, nEmits, nEvents>>

\* Socket.ack(id): a new callback with its own `sent`; writes counts the
\* frames the callback has written.
SocketAck(S, s, id) ==
  [S EXCEPT !.ackFns = Append(@, [sock |-> s, id |-> id, sent |-> FALSE,
                                  writes |-> 0])]

\* The callback of Socket.ack that sends on every call.
AckCallAlways(S, i, args) ==
  LET a == S.ackFns[i]
      data == <<ToString(a.id)>>
      type == IF hasBin(data) THEN "BINARY_ACK" ELSE "ACK"
      S1 == SocketPacket(S, a.sock, Pkt(type, "", data, a.id), NoOpts)
  IN [S1 EXCEPT !.ackFns[i].sent = TRUE,
                !.ackFns[i].writes = @ + Len(S1.out) - Len(S.out)]

\* The callback Socket.ack(id) returns, called with args. It is an arrow
\* function, so `arguments` in it is the arguments object of Socket.ack
\* itself, [id], whatever the callback is called with; the number id is
\* written here as its decimal string.
AckCall(S, i, args) ==
  IF S.ackFns[i].sent THEN S
  ELSE LET a == S.ackFns[i]
           data == <<ToString(a.id)>>
           type == IF hasBin(data) THEN "BINARY_ACK" ELSE "ACK"
           S1 == SocketPacket(S, a.sock, Pkt(type, "", data, a.id), NoOpts)
       IN [S1 EXCEPT !.ackFns[i].sent = TRUE,
                     !.ackFns[i].writes = @ + Len(S1.out) - Len(S.out)]

\* Socket.onevent: null !== packet.id holds for an id and for no id alike
\* (the decoder leaves the field undefined), so a callback is always made.
SocketOnevent(S, s, pkt) ==
  EmittedAck(SocketAck(S, s, pkt.id), pkt.data[1], s, pkt.data[2], pkt.id)

\* Socket.onpacket
SocketOnpacket(S, s, pkt) ==
  CASE pkt.type \in {"EVENT", "BINARY_EVENT"} -> SocketOnevent(S, s, pkt)
    [] pkt.type \in {"ACK", "BINARY_ACK"} -> SocketOnack(S, s, pkt)
    [] pkt.type = "DISCONNECT" -> SocketOndisconnect(S, s)
    [] pkt.type = "ERROR" -> SocketEmit(S, s, "error", pkt.data[1], FALSE)

\* Client.ondecoded for a packet other than CONNECT.
ClientOndecoded(S, c, pkt) ==
  IF S.nsps[c][pkt.nsp] # NoSock
  THEN SocketOnpacket(S, S.nsps[c][pkt.nsp], pkt)
  ELSE S

\* A frame that decodes to a packet other than CONNECT.
OndataPacket(c, pkt) ==
  /\ conn[c] = "open" /\ listening[c]
  /\ Commit(ClientOndecoded(State, c, pkt), OpPkt(c, pkt))
  /\ UNCHANGED <<nConnects, nUse, nEmits, nEvents>>

\* A frame that decodes to an EVENT or a BINARY_EVENT.
OndataEvent(c, pkt) ==
  /\ conn[c] = "open" /\ listening[c]
  /\ nEvents < MaxEvents
  /\ Commit(ClientOndecoded(State, c, pkt), OpPkt(c, pkt))
  /\ nEvents' = nEvents + 1
  /\ UNCHANGED <<nConnects, nUse, nEmits>>

\* User code calls the i-th callback made by Socket.ack, with one argument.
CallAck(i, arg) ==
  /\ i \in 1..Len(ackFns)
  /\ Commit(AckCall(State, i, <<arg>>),
            [Op("ack()", socks[ackFns[i].sock].client, ackFns[i].sock,
                socks[ackFns[i].sock].nsp)
               EXCEPT !.fn = i, !.call = EmitCall(<<>>, "", arg, FALSE, AllWritable)])
  /\ UNCHANGED <<nConnects, nUse, nEmits, nEvents>>

\* The encoder calls back for the packet it has held longest.
EncoderCallback(w) ==
  /\ encoding # <<>>
  /\ LET e == Head(encoding)
     IN Commit(WriteToEngine([State EXCEPT !.encoding = Tail(@), !.writable = w],
                             e.c, e.pkt, e.opts),
               [OpPkt(e.c, e.pkt) EXCEPT !.name = "encoded"])
  /\ UNCHANGED <<nConnects, nUse, nEmits, nEvents>>

\* A frame decoder.add throws on.
OndataMalformed(c, listeners) ==
  /\ conn[c] = "open" /\ listening[c]
  /\ Commit(Ondata([State EXCEPT !.thrown = "decode error"], c, listeners),
            Op("malformed", c, NoSock, ""))
  /\ UNCHANGED <<nConnects, nUse, nEmits, nEvents>>

\* The engine emits 'close' on transport c.
ConnClose(c) ==
  /\ conn[c] \in {"open", "closing"}
  /\ LET S == [State EXCEPT !.conn[c] = "closed"]
     IN Commit(IF listening[c] THEN ClientOnclose(S, c, "transport close") ELSE S,
               Op("close", c, NoSock, ""))
  /\ UNCHANGED <<nConnects, nUse, nEmits, nEvents>>

\* The next process.nextTick callback runs; h is what the 'connect' listener
\* does when the callback is an admission.
Tick(h) ==
  /\ ticks # <<>>
  /\ LET t == Head(ticks)
         S == [State EXCEPT !.ticks = Tail(@)]
         op == Op(t.kind, socks[t.sock].client, t.sock, socks[t.sock].nsp)
     IN CASE t.kind = "admit" -> Commit(AdmitTick(S, t, h), op)
          [] t.kind = "joined" -> h = "none" /\ Commit(JoinedTick(S, t), op)
          [] t.kind = "left" -> h = "none" /\ Commit(LeftTick(S, t), op)
  /\ UNCHANGED <<nConnects, nUse, nEmits, nEvents>>

\* The sockets user code holds: those Namespace.add has registered.
Exposed == {s \in 1..Len(socks) : socks[s].onconnect}

\* User code calls socket.disconnect(close).
CallDisconnect(s, close) ==
  /\ s \in Exposed
  /\ Commit(SocketDisconnect(State, s, close),
            Op(IF close THEN "disconnect(true)" ELSE "disconnect()",
               socks[s].client, s, socks[s].nsp))
  /\ UNCHANGED <<nConnects, nUse, nEmits, nEvents>>

\* Socket.onclose called on its own.
CallOnclose(s) ==
  /\ s \in Exposed
  /\ Commit(SocketOnclose(State, s, "ping timeout"),
            Op("onclose", socks[s].client, s, socks[s].nsp))
  /\ UNCHANGED <<nConnects, nUse, nEmits, nEvents>>

\* Server.close: onclose() on every socket of "/", then engine.close().
ServerClose ==
  /\ LET S1 == OncloseEach(State,
                 KeysOf([c \in Clients |-> nspSockets["/"][c]],
                        [i \in 1..MaxClients |-> i]), "undefined")
     IN Commit([S1 EXCEPT !.conn = [c \in Clients |->
                            IF S1.conn[c] = "open" THEN "closing" ELSE S1.conn[c]]],
               Op("Server.close", 0, NoSock, "/"))
  /\ UNCHANGED <<nConnects, nUse, nEmits, nEvents>>

\* User code calls socket.join(room).
CallJoin(s, room) ==
  /\ s \in Exposed
  /\ Commit(SocketJoin(State, s, room), Op("join", socks[s].client, s, socks[s].nsp))
  /\ UNCHANGED <<nConnects, nUse, nEmits, nEvents>>

\* User code calls socket.leave(room).
CallLeave(s, room) ==
  /\ s \in Exposed
  /\ Commit(SocketLeave(State, s, room), Op("leave", socks[s].client, s, socks[s].nsp))
  /\ UNCHANGED <<nConnects, nUse, nEmits, nEvents>>

\* Socket.leaveAll called on its own.
CallLeaveAll(s) ==
  /\ s \in Exposed
  /\ Commit(SocketLeaveAll(State, s), Op("leaveAll", socks[s].client, s, socks[s].nsp))
  /\ UNCHANGED <<nConnects, nUse, nEmits, nEvents>>

\* User code calls socket.leave(room) and socket.join(room) one after the
\* other in one callback.
CallLeaveJoin(s, room) ==
  /\ s \in Exposed
  /\ Commit(SocketJoin(SocketLeave(State, s, room), s, room),
            Op("leave;join", socks[s].client, s, socks[s].nsp))
  /\ UNCHANGED <<nConnects, nUse, nEmits, nEvents>>

\* Namespace.initAdapter on each namespace in turn: a new Adapter, with no
\* member, becomes Namespace.adapter.
RECURSIVE InitAdapterEach(_, _)
InitAdapterEach(S, names) ==
  IF names = <<>> THEN S
  ELSE InitAdapterEach(
         IF Head(names) \in S.registered
         THEN [S EXCEPT !.adapter[Head(names)] = Append(@, {})]
         ELSE S,
         Tail(names))

\* User code calls Server.adapter(factory) on the running server.
ServerAdapter ==
  /\ NspAdapter(State, "/") <= MaxAdapters
  /\ Commit(InitAdapterEach(State, NspOrder), Op("adapter", 0, NoSock, ""))
  /\ UNCHANGED <<nConnects, nUse, nEmits, nEvents>>

\* User code runs socket.<modifiers>.emit(ev, arg[, cb]).
CallSocketEmit(s, e) ==
  /\ s \in Exposed
  /\ nEmits < MaxEmits
  /\ Commit(SocketEmit(SocketChain([State EXCEPT !.writable = e.w], s, e.mods),
                       s, e.ev, e.arg, e.cb),
            [Op("emit", socks[s].client, s, socks[s].nsp) EXCEPT !.call = e])
  /\ nEmits' = nEmits + 1
  /\ UNCHANGED <<nConnects, nUse, nEvents>>

\* User code runs socket.<modifiers>.emit(ev, arg[, cb]) with an encoder that
\* calls back later.
CallSocketEmitDeferred(s, e) ==
  /\ s \in Exposed
  /\ nEmits < MaxEmits
  /\ Commit(SocketEmit(SocketChain([State EXCEPT !.writable = e.w, !.defer = TRUE],
                                   s, e.mods),
                       s, e.ev, e.arg, e.cb),
            [Op("emit", socks[s].client, s, socks[s].nsp) EXCEPT !.call = e])
  /\ nEmits' = nEmits + 1
  /\ UNCHANGED <<nConnects, nUse, nEvents>>

\* User code runs nsp.<modifiers>.emit(ev, arg[, cb]).
CallNamespaceEmit(n, e) ==
  /\ n \in registered
  /\ nEmits < MaxEmits
  /\ Commit(NamespaceEmit(NamespaceChain([State EXCEPT !.writable = e.w], n, e.mods),
                          n, e.ev, e.arg, e.cb),
            [Op("nsp.emit", 0, NoSock, n) EXCEPT !.call = e])
  /\ nEmits' = nEmits + 1
  /\ UNCHANGED <<nConnects, nUse, nEvents>>

\* ---------------------------------------------------------- specifications
\* Spec: namespaces, middleware, CONNECT buffering, admission and every way
\* a socket or a connection closes.
Disconnects == {Pkt("DISCONNECT", n, <<"">>, NoId) : n \in NspNames}

Next ==
  \/ \E n \in NspNames : ServerOf(n)
  \/ \E n \in {"/", "/a"}, k \in MwKinds : NamespaceUse(n, k)
  \/ \E c \in 1..MaxPeers : ServerOnconnection(c)
  \/ \E c \in Clients, n \in NspNames : OndataConnect(c, n)
  \/ \E c \in Clients, pkt \in Disconnects : OndataPacket(c, pkt)
  \/ \E c \in Clients, l \in BOOLEAN : OndataMalformed(c, l)
  \/ \E c \in Clients : ConnClose(c)
  \/ \E h \in Handlers : Tick(h)
  \/ \E s \in 1..Len(socks), close \in BOOLEAN : CallDisconnect(s, close)
  \/ \E s \in 1..Len(socks) : CallOnclose(s)
  \/ ServerClose

Spec == Init /\ [][Next]_vars

\* SpecEmit: peers on the default namespace that join rooms, emit, broadcast
\* and acknowledge.
R == UserRoom("r")

SocketEmits ==
  {EmitCall(<<>>, "x", "text", FALSE, AllWritable),
   EmitCall(<<>>, "x", "text", TRUE, AllWritable),
   EmitCall(<<>>, "x", "binary", FALSE, AllWritable),
   EmitCall(<<>>, "error", "text", FALSE, AllWritable),
   EmitCall(<<ToMod(R)>>, "x", "text", FALSE, AllWritable),
   EmitCall(<<ToMod(R)>>, "x", "text", TRUE, AllWritable),
   EmitCall(<<ToMod(R)>>, "error", "text", FALSE, AllWritable),
   EmitCall(<<FlagMod("broadcast")>>, "x", "text", FALSE, AllWritable),
   EmitCall(<<FlagMod("volatile")>>, "x", "text", FALSE, AllWritable),
   EmitCall(<<FlagMod("volatile")>>, "x", "text", FALSE, NoneWritable),
   EmitCall(<<FlagMod("volatile")>>, "disconnect", "text", FALSE, AllWritable),
   EmitCall(<<CompressMod("true")>>, "x", "text", FALSE, AllWritable)}
  \cup {EmitCall(<<ToMod(IdRoom(d))>>, "x", "text", FALSE, AllWritable) : d \in Clients}
  \cup {EmitCall(<<ToMod(R), ToMod(IdRoom(d))>>, "x", "binary", FALSE, AllWritable) :
          d \in Clients}

NamespaceEmits ==
  {EmitCall(<<>>, "x", "text", FALSE, AllWritable),
   EmitCall(<<ToMod(R)>>, "x", "text", FALSE, AllWritable),
   EmitCall(<<ToMod(R)>>, "x", "text", TRUE, AllWritable),
   EmitCall(<<ToMod(R)>>, "connect", "text", FALSE, AllWritable),
   EmitCall(<<FlagMod("volatile")>>, "x", "binary", FALSE, NoneWritable)}

Acks ==
  {Pkt("ACK", "/", <<"text">>, 0), Pkt("BINARY_ACK", "/", <<"binary">>, 0),
   Pkt("ACK", "/", <<"text">>, 1)}

\* Each call below is a task of its own on the event loop, and the
\* process.nextTick queue is drained between two tasks.
Idle == ticks = <<>>
TaskOnconnection(c) == Idle /\ ServerOnconnection(c)
TaskOndata(c, pkt) == Idle /\ OndataPacket(c, pkt)
TaskClose(c) == Idle /\ ConnClose(c)
TaskDisconnect(s) == Idle /\ CallDisconnect(s, FALSE)
TaskJoin(s, room) == Idle /\ CallJoin(s, room)
TaskSocketEmit(s, e) == Idle /\ CallSocketEmit(s, e)
TaskNamespaceEmit(n, e) == Idle /\ CallNamespaceEmit(n, e)

NextEmit ==
  \/ Tick("none")
  \/ \E c \in Clients : TaskOnconnection(c)
  \/ \E c \in Clients, pkt \in Acks : TaskOndata(c, pkt)
  \/ \E c \in Clients : TaskClose(c)
  \/ \E s \in 1..Len(socks) : TaskDisconnect(s)
  \/ \E s \in 1..Len(socks) : TaskJoin(s, R)
  \/ \E s \in 1..Len(socks) : \E e \in SocketEmits : TaskSocketEmit(s, e)
  \/ \E e \in NamespaceEmits : TaskNamespaceEmit("/", e)

SpecEmit == Init /\ [][NextEmit]_vars

\* SpecAck: peers on the default namespace that send events asking for an
\* acknowledgement, and listeners that call the callback they were given.
InEvents ==
  {Pkt("EVENT", "/", <<"x", "text">>, 7), Pkt("BINARY_EVENT", "/", <<"x", "binary">>, 7),
   Pkt("EVENT", "/", <<"x", "text">>, NoId)}

TaskOnevent(c, pkt) == Idle /\ OndataEvent(c, pkt)
TaskAck(i, arg) == Idle /\ CallAck(i, arg)
TaskServerClose == Idle /\ ServerClose

NextAck ==
  \/ Tick("none")
  \/ \E c \in Clients : TaskOnconnection(c)
  \/ \E c \in Clients, pkt \in InEvents : TaskOnevent(c, pkt)
  \/ \E i \in 1..MaxEvents, arg \in Args : TaskAck(i, arg)
  \/ \E c \in Clients : TaskClose(c)
  \/ \E s \in 1..Len(socks) : TaskDisconnect(s)
  \/ TaskServerClose

SpecAck == Init /\ [][NextAck]_vars

\* SpecPacket: peers on the default namespace, emits that go through the
\* encoder or come pre-encoded from a broadcast, and transports that close.
PacketEmits ==
  {EmitCall(<<>>, "x", "text", FALSE, AllWritable),
   EmitCall(<<>>, "x", "binary", FALSE, AllWritable),
   EmitCall(<<FlagMod("volatile")>>, "x", "text", FALSE, AllWritable),
   EmitCall(<<FlagMod("volatile")>>, "x", "text", FALSE, NoneWritable),
   EmitCall(<<FlagMod("broadcast")>>, "x", "text", FALSE, AllWritable)}

TaskSocketEmitDeferred(s, e) == Idle /\ CallSocketEmitDeferred(s, e)
TaskEncoded(w) == Idle /\ EncoderCallback(w)

NextPacket ==
  \/ Tick("none")
  \/ \E c \in Clients : TaskOnconnection(c)
  \/ \E s \in 1..Len(socks) : \E e \in PacketEmits : TaskSocketEmit(s, e)
  \/ \E s \in 1..Len(socks) : \E e \in PacketEmits : TaskSocketEmitDeferred(s, e)
  \/ \E w \in {AllWritable, NoneWritable} : TaskEncoded(w)
  \/ \E c \in Clients : TaskClose(c)
  \/ TaskServerClose

SpecPacket == Init /\ [][NextPacket]_vars

\* SpecRooms: sockets on the default namespace that join and leave a room
\* while adapter callbacks are still queued, sockets that close, broadcasts
\* to the room, and a server whose adapter is replaced while it runs.
CanQueue(k) == Len(ticks) + k <= MaxPending
RoomsOnconnection(c) == CanQueue(1) /\ ServerOnconnection(c)
RoomsJoin(s, room) == CanQueue(1) /\ CallJoin(s, room)
RoomsLeave(s, room) == CanQueue(1) /\ CallLeave(s, room)
RoomsLeaveJoin(s, room) == CanQueue(2) /\ CallLeaveJoin(s, room)

RoomEmits ==
  {EmitCall(<<ToMod(R)>>, "x", "text", FALSE, AllWritable)}

NextRooms ==
  \/ Tick("none")
  \/ \E c \in 1..MaxPeers : RoomsOnconnection(c)
  \/ \E s \in 1..Len(socks) : RoomsJoin(s, R)
  \/ \E s \in 1..Len(socks) : RoomsLeave(s, R)
  \/ \E s \in 1..Len(socks) : RoomsLeaveJoin(s, R)
  \/ \E s \in 1..Len(socks) : CallLeaveAll(s)
  \/ \E s \in 1..Len(socks) : CallOnclose(s)
  \/ ServerAdapter
  \/ \E e \in RoomEmits : CallNamespaceEmit("/", e)

SpecRooms == Init /\ [][NextRooms]_vars

\* ------------------------------------------------------------------ claims
\* The namespaces of the sockets a step constructs, in construction order.
Added == [i \in 1..(Len(socks') - Len(socks)) |-> socks'[Len(socks) + i].nsp]

\* The step is the admission tick of socket s, and it admits s.
Admits(s) ==
  /\ step'.op.name = "admit" /\ step'.op.s = s
  /\ s \in 1..Len(socks) /\ ~socks[s].onconnect /\ socks'[s].onconnect

\* C1. A CONNECT for a registered non-default namespace that arrives while the
\* client has no socket in "/" is appended to connectBuffer and constructs no
\* socket; the step that admits the client's "/" socket calls Namespace.add
\* once for each buffered name, in the order of the buffer, and empties the
\* buffer; and no socket of another namespace is constructed for a client
\* before a "/" socket of that client has been admitted.
C1_BufferedThenReplayedInOrder ==
  [][\A c \in Clients :
       /\ ( /\ step'.op.name = "CONNECT" /\ step'.op.c = c
            /\ step'.op.n \in registered \ {"/"}
            /\ nsps[c]["/"] = NoSock )
          => /\ connectBuffer'[c] = Append(connectBuffer[c], step'.op.n)
             /\ socks' = socks
       /\ (\E s \in 1..Len(socks) :
             Admits(s) /\ socks[s].nsp = "/" /\ socks[s].client = c)
          => /\ Added = connectBuffer[c]
             /\ connectBuffer'[c] = <<>>
       /\ \A i \in (Len(socks) + 1)..Len(socks') :
            (socks'[i].client = c /\ socks'[i].nsp # "/")
            => \E s \in 1..Len(socks') :
                 /\ socks'[s].nsp = "/" /\ socks'[s].client = c
                 /\ socks'[s].onconnect
    ]_vars

\* The positions of the local events called name about socket s in a step.
EventsOf(st, name, s) ==
  {i \in 1..Len(st.ev) : st.ev[i].name = name /\ st.ev[i].sock = s}

\* The positions of the frames of the given type a step wrote for socket s.
FramesOf(st, types, s) ==
  {k \in 1..Len(st.out) : /\ st.out[k].pkt.type \in types
                          /\ st.out[k].c = socks'[s].client
                          /\ st.out[k].pkt.nsp = socks'[s].nsp}

\* C2. The step that admits a socket registers it in nsp.sockets, runs
\* onconnect (nsp.connected, the room of its id, the CONNECT packet), records
\* it in client.sockets and client.nsps, and then emits 'connect' and after it
\* 'connection'; no 'connect' or 'connection' is ever emitted for a socket
\* whose onconnect has not run; and the CONNECT packet precedes every packet a
\* listener emits on the socket.
C2_AdmissionOrder ==
  [][/\ \A s \in 1..Len(socks) : Admits(s) =>
          \E i \in EventsOf(step', "connect", s) :
          \E j \in EventsOf(step', "connection", s) :
            /\ i < j
            /\ EventsOf(step', "connect", s) = {i}
            /\ EventsOf(step', "connection", s) = {j}
            /\ step'.ev[i].inNsp /\ step'.ev[i].inConnected
            /\ step'.ev[i].inRoom /\ step'.ev[i].inClient
            /\ \E k \in FramesOf(step', {"CONNECT"}, s) : k <= step'.ev[i].written
     /\ \A i \in 1..Len(step'.ev) :
          step'.ev[i].name \in {"connect", "connection"} /\ step'.ev[i].sock # NoSock
          => /\ socks'[step'.ev[i].sock].onconnect
             /\ \E k \in FramesOf(step', {"CONNECT"}, step'.ev[i].sock) :
                  /\ k <= step'.ev[i].written
                  /\ \A m \in FramesOf(step', {"EVENT", "BINARY_EVENT", "DISCONNECT"},
                                       step'.ev[i].sock) : k < m
    ]_vars

\* The sockets a step constructs.
Constructed == (Len(socks) + 1)..Len(socks')

\* C3. When Namespace.add runs for a namespace whose middleware calls
\* next(err), the step neither throws nor closes anything: the admission is
\* queued with the error, the client's transport and its other sockets stay
\* as they are; and the queued admission writes exactly one ERROR packet for
\* that namespace, enters the socket in no map and emits neither 'connect' nor
\* 'connection'.
C3_MiddlewareRejection ==
  [][/\ \A s \in Constructed :
          "nextErr" \in Range(fns[socks'[s].nsp])
          => /\ step'.thrown = NoErr /\ step'.caught = NoErr
             /\ \E i \in 1..Len(ticks') :
                  /\ ticks'[i].kind = "admit" /\ ticks'[i].sock = s
                  /\ ticks'[i].err # NoErr
             /\ conn' = conn /\ sockets' = sockets /\ nsps' = nsps
             /\ \A o \in 1..Len(socks) : socks'[o] = socks[o]
     /\ \A s \in 1..Len(socks) :
          ( /\ step'.op.name = "admit" /\ step'.op.s = s
            /\ Head(ticks).err # NoErr /\ conn[socks[s].client] = "open" )
          => /\ step'.out = <<[c |-> socks[s].client,
                               pkt |-> Pkt("ERROR", socks[s].nsp, <<Head(ticks).err>>, NoId),
                               compress |-> FALSE]>>
             /\ step'.ev = <<>>
             /\ nspSockets' = nspSockets /\ connected' = connected
             /\ sockets' = sockets /\ nsps' = nsps /\ conn' = conn
    ]_vars

\* The program's variables, without the record of the last step.
progVars == <<registered, fns, nspSockets, connected, ids, nspRooms, nspFlags,
              adapter, conn, listening, decoder, sockets, nsps, connectBuffer,
              socks, ticks, ackFns, encoding>>

\* C4. A socket's 'disconnect' event is emitted at most once: a step emits it
\* at most once, only for a socket whose connected flag was true, and clears
\* the flag, which is never set again; and Socket.onclose or
\* Socket.disconnect called on a socket whose connected flag is false changes
\* no state, writes no packet and emits no event.
C4_DisconnectOnceThenNoOp ==
  [][\A s \in 1..Len(socks) :
       /\ Cardinality(EventsOf(step', "disconnect", s)) <= 1
       /\ EventsOf(step', "disconnect", s) # {}
          => socks[s].connected /\ ~socks'[s].connected
       /\ ~socks[s].connected => ~socks'[s].connected
       /\ socks'[s].disconnects <= 1
       /\ ( /\ step'.op.name \in {"onclose", "disconnect()", "disconnect(true)"}
            /\ step'.op.s = s
            /\ ~socks[s].connected )
          => /\ UNCHANGED progVars
             /\ step'.out = <<>> /\ step'.ev = <<>> /\ step'.closes = <<>>
    ]_vars

\* C4's case: onclose or disconnect has been called on a socket that had
\* already been closed.
C4_Witness ==
  /\ step.op.name \in {"onclose", "disconnect()", "disconnect(true)"}
  /\ step.op.s # NoSock
  /\ ~socks[step.op.s].connected
  /\ socks[step.op.s].disconnects = 1
  /\ step.ev = <<>>

\* C5. A run of Client.onclose(reason) gives every socket the client holds
\* exactly one 'disconnect' event, carrying that reason; after it
\* client.sockets and client.nsps are empty, none of those sockets is in its
\* namespace's sockets or connected map, the decoder is destroyed, and no
\* frame has been written since the run began.
C5_ClientOncloseFanOut ==
  [][\A i \in 1..Len(step'.closes) :
       LET cl == step'.closes[i]
       IN /\ \A s \in cl.had :
               /\ Cardinality(EventsOf(step', "disconnect", s)) = 1
               /\ \A e \in EventsOf(step', "disconnect", s) :
                    step'.ev[e].arg = cl.reason
               /\ nspSockets'[socks[s].nsp][cl.c] # s
               /\ connected'[socks[s].nsp][cl.c] # s
               /\ ~socks'[s].connected
          /\ sockets'[cl.c] = NoSockets
          /\ nsps'[cl.c] = NoSockets
          /\ ~decoder'[cl.c]
          /\ Len(step'.out) = cl.written
    ]_vars

\* C5's case: Client.onclose has run for a client that held sockets of two
\* namespaces.
C5_Witness ==
  /\ Len(step.closes) = 1
  /\ Cardinality(step.closes[1].had) >= 2
  /\ Cardinality({socks[s].nsp : s \in step.closes[1].had}) >= 2
  /\ \A s \in step.closes[1].had : EventsOf(step, "disconnect", s) # {}

\* C9. A CONNECT for a name that is no registered namespace writes exactly
\* one ERROR packet with that name and the data 'Invalid namespace',
\* constructs no socket, emits nothing and leaves the client's maps and
\* buffer, every socket, the namespaces' maps and rooms and the transport as
\* they were.
C9_UnknownNamespace ==
  [][( /\ step'.op.name = "CONNECT"
       /\ step'.op.n \notin registered )
     => /\ step'.out = <<[c |-> step'.op.c,
                          pkt |-> Pkt("ERROR", step'.op.n, <<"Invalid namespace">>, NoId),
                          compress |-> FALSE]>>
        /\ step'.ev = <<>> /\ step'.closes = <<>>
        /\ step'.thrown = NoErr /\ step'.caught = NoErr
        /\ UNCHANGED progVars
    ]_vars

\* C9's case: a client that holds a connected socket has had a CONNECT for an
\* unregistered name answered.
C9_Witness ==
  /\ step.op.name = "CONNECT"
  /\ step.op.n \notin registered
  /\ Len(step.out) = 1
  /\ step.out[1].pkt.type = "ERROR"
  /\ \E s \in 1..Len(socks) :
       /\ socks[s].client = step.op.c /\ socks[s].connected
       /\ sockets[step.op.c][socks[s].nsp] = s
  /\ conn[step.op.c] = "open"

\* C10. Every Socket object, from its construction on, is an entry of its
\* namespace's connected map if and only if its connected flag is true.
C10_InConnectedIffFlag ==
  \A s \in 1..Len(socks) :
    (connected[socks[s].nsp][socks[s].client] = s) <=> socks[s].connected

\* The rooms the to()/in() calls of a chain name.
ToRooms(mods) == {mods[i].room : i \in {j \in 1..Len(mods) : mods[j].kind = "to"}}

\* C6. A callback given to a Socket.emit that does not broadcast is stored in
\* the socket's acks under the id of the packet the emit writes; it is called
\* only by the step that dispatches an ACK or BINARY_ACK with that id to that
\* socket, with the packet's data, and its entry is removed by that step; no
\* id is acknowledged twice on a socket; and no callback is called on a socket
\* that has been closed.
C6_AckCalledAtMostOnce ==
  [][/\ \A s \in 1..Len(socks) :
          ( /\ step'.op.name = "emit" /\ step'.op.s = s
            /\ step'.op.call.cb /\ step'.op.call.ev \notin Events
            /\ step'.thrown = NoErr )
          => /\ socks'[s].acks = socks[s].acks \cup {ids[socks[s].nsp]}
             /\ ids[socks[s].nsp] \notin socks[s].acks
             /\ ids'[socks[s].nsp] = ids[socks[s].nsp] + 1
             /\ conn[socks[s].client] = "open"
                => /\ Len(step'.out) = 1
                   /\ step'.out[1].c = socks[s].client
                   /\ step'.out[1].pkt.nsp = socks[s].nsp
                   /\ step'.out[1].pkt.id = ids[socks[s].nsp]
     /\ \A i \in 1..Len(step'.ev) :
          step'.ev[i].name = "ack"
          => LET s == step'.ev[i].sock
             IN /\ step'.op.name \in {"ACK", "BINARY_ACK"}
                /\ s \in 1..Len(socks)
                /\ socks[s].client = step'.op.c /\ socks[s].nsp = step'.op.pkt.nsp
                /\ nsps[step'.op.c][step'.op.pkt.nsp] = s
                /\ step'.ev[i].id = step'.op.pkt.id
                /\ step'.ev[i].arg = step'.op.pkt.data[1]
                /\ step'.ev[i].id \in socks[s].acks
                /\ step'.ev[i].id \notin socks'[s].acks
                /\ socks[s].connected
                /\ Len(step'.ev) = 1
     /\ \A s \in 1..Len(socks') :
          \A i, j \in 1..Len(socks'[s].acked) :
            socks'[s].acked[i] = socks'[s].acked[j] => i = j
    ]_vars

\* C6's case: an ACK whose id the socket has already acknowledged is
\* dispatched to the socket again and calls nothing.
C6_Witness ==
  /\ step.op.name \in {"ACK", "BINARY_ACK"}
  /\ nsps[step.op.c][step.op.pkt.nsp] # NoSock
  /\ step.op.pkt.id \in Range(socks[nsps[step.op.c][step.op.pkt.nsp]].acked)
  /\ step.ev = <<>>

\* C7. After every call of Socket.emit or Namespace.emit the target's
\* transient room list and flags are unset.
C7_TransientCleared ==
  /\ step.op.name = "emit"
     => /\ socks[step.op.s]._rooms = <<>>
        /\ socks[step.op.s].flags = <<>>
  /\ step.op.name = "nsp.emit"
     => /\ nspRooms[step.op.n] = <<>>
        /\ nspFlags[step.op.n] = <<>>

\* The clients, other than that of socket a, that hold a connected socket of
\* a's namespace which is a member of one of the rooms rs.
Reached(a, rs) ==
  {c \in Clients \ {socks[a].client} :
     \E t \in 1..Len(socks) :
       /\ socks[t].client = c /\ socks[t].nsp = socks[a].nsp
       /\ socks[t].connected /\ connected[socks[t].nsp][c] = t
       /\ socks[t].rooms \cap rs # {}}

\* C8. a.to(r)...emit(ev, arg) on a connected socket a, with the rooms
\* accumulated on a not empty, writes the packet exactly once to each client
\* holding a connected socket of a's namespace that is a member of one of
\* those rooms, a itself left out, and writes nothing else.
C8_ToReachesMembersButSender ==
  [][\A a \in 1..Len(socks) :
       LET e == step'.op.call
           rs == Range(socks[a]._rooms) \cup ToRooms(e.mods)
       IN ( /\ step'.op.name = "emit" /\ step'.op.s = a
            /\ socks[a].connected
            /\ rs # {}
            /\ e.ev \notin Events /\ ~e.cb
            /\ e.w = AllWritable )
          => /\ Len(step'.out) = Cardinality(Reached(a, rs))
             /\ {step'.out[k].c : k \in 1..Len(step'.out)} = Reached(a, rs)
             /\ \A k \in 1..Len(step'.out) :
                  /\ step'.out[k].pkt.nsp = socks[a].nsp
                  /\ step'.out[k].pkt.data = <<e.ev, e.arg>>
                  /\ step'.out[k].pkt.type =
                       (IF e.arg = "binary" THEN "BINARY_EVENT" ELSE "EVENT")
                  /\ step'.out[k].pkt.id = NoId
    ]_vars

\* C8's case: a member of the room it targets has emitted to the room, and
\* the packet went to the other member only.
C8_Witness ==
  /\ step.op.name = "emit"
  /\ step.op.call.ev = "x" /\ ~step.op.call.cb
  /\ ToRooms(step.op.call.mods) # {}
  /\ socks[step.op.s].connected
  /\ socks[step.op.s].rooms \cap ToRooms(step.op.call.mods) # {}
  /\ Len(step.out) = 1
  /\ step.out[1].c # socks[step.op.s].client

\* C11. No socket whose connected flag is false is an entry of its
\* namespace's connected map: the step that clears the flag removes the
\* entry, and onconnect runs only on a socket that has not been closed.
C11_NoClosedSocketInConnected ==
  [][\A s \in 1..Len(socks') :
       LET n == socks'[s].nsp
           c == socks'[s].client
       IN /\ connected'[n][c] = s => socks'[s].connected
          /\ s <= Len(socks) =>
               /\ (socks[s].connected /\ ~socks'[s].connected)
                  => connected'[n][c] = NoSock
               /\ (~socks[s].onconnect /\ socks'[s].onconnect)
                  => socks[s].connected /\ socks[s].disconnects = 0
    ]_vars

\* C11's case: a socket that was admitted has been closed, and a later step
\* has run.
C11_Witness ==
  \E s \in 1..Len(socks) :
    /\ socks[s].onconnect /\ ~socks[s].connected /\ socks[s].disconnects = 1
    /\ connected[socks[s].nsp][socks[s].client] # s
    /\ step.op.s # s /\ step.op.c = socks[s].client

\* C12. Between two callbacks, a client that has a socket in "/" has an empty
\* connectBuffer.
C12_BufferEmptyOnceDefaultAdmitted ==
  \A c \in Clients : nsps[c]["/"] # NoSock => connectBuffer[c] = <<>>

\* C13. At most one live Socket object exists for a client and a namespace.
C13_OneLiveSocketPerClientAndNamespace ==
  \A s, t \in 1..Len(socks) :
    ( /\ socks[s].client = socks[t].client /\ socks[s].nsp = socks[t].nsp
      /\ socks[s].onconnect /\ socks[s].connected
      /\ socks[t].onconnect /\ socks[t].connected )
    => s = t

\* C14. Socket.disconnect() without close, on a connected socket whose
\* transport is open, writes exactly one DISCONNECT packet for the socket's
\* namespace, closes the socket with reason 'server namespace disconnect',
\* and leaves every other socket of the client as it was: connected, in
\* client.sockets and client.nsps and in its namespace's maps, the transport
\* open.
C14_DisconnectLeavesOthers ==
  [][\A s \in 1..Len(socks) :
       ( /\ step'.op.name = "disconnect()" /\ step'.op.s = s
         /\ socks[s].connected
         /\ conn[socks[s].client] = "open" )
       => LET c == socks[s].client
          IN /\ step'.out = <<[c |-> c,
                               pkt |-> Pkt("DISCONNECT", socks[s].nsp, <<>>, NoId),
                               compress |-> FALSE]>>
             /\ ~socks'[s].connected
             /\ \E i \in 1..Len(step'.ev) :
                  /\ EventsOf(step', "disconnect", s) = {i}
                  /\ step'.ev[i].arg = "server namespace disconnect"
             /\ conn' = conn
             /\ \A t \in 1..Len(socks) \ {s} :
                  socks[t].client = c
                  => LET n == socks[t].nsp
                     IN /\ socks'[t] = socks[t]
                        /\ sockets[c][n] = t => sockets'[c][n] = t
                        /\ nsps[c][n] = t => nsps'[c][n] = t
                        /\ nspSockets[n][c] = t => nspSockets'[n][c] = t
                        /\ connected[n][c] = t => connected'[n][c] = t
    ]_vars

\* The admission callbacks queued for socket s.
AdmitTicks(q, s) == {i \in 1..Len(q) : q[i].kind = "admit" /\ q[i].sock = s}

\* C18. Namespace.run, for a socket of a namespace that has middleware,
\* calls the final callback exactly once: the step that constructs the socket
\* throws nothing and queues exactly one admission for it, without an error
\* when every middleware calls next() and with the error of the first
\* middleware that calls next(err) otherwise.
C18_RunCallsBackOnce ==
  [][\A s \in Constructed :
       fns[socks'[s].nsp] # <<>>
       => /\ step'.thrown = NoErr /\ step'.caught = NoErr
          /\ Cardinality(AdmitTicks(ticks', s)) = 1
          /\ \A i \in AdmitTicks(ticks', s) :
               (ticks'[i].err = NoErr)
                 <=> (\A k \in 1..Len(fns[socks'[s].nsp]) :
                        fns[socks'[s].nsp][k] = "next")
    ]_vars

\* C19. When the transport is not open as the admission callback of a socket
\* runs, the callback changes nothing but the callback queue, writes nothing
\* and emits nothing; and a socket enters a map, joins a room by onconnect or
\* gets 'connect' or 'connection' only in its own admission callback, run
\* while the transport is open, which is queued once only.
C19_NoAdmissionOnceTransportClosed ==
  [][\A s \in 1..Len(socks) :
       LET n == socks[s].nsp
           c == socks[s].client
           admit == step'.op.name = "admit" /\ step'.op.s = s
       IN /\ (admit /\ conn[c] # "open")
             => /\ UNCHANGED <<registered, fns, nspSockets, connected, ids,
                               nspRooms, nspFlags, adapter, conn, listening,
                               decoder, sockets, nsps, connectBuffer, socks,
                               ackFns, encoding>>
                /\ ticks' = Tail(ticks)
                /\ step'.out = <<>> /\ step'.ev = <<>>
          /\ ( \/ nspSockets[n][c] # s /\ nspSockets'[n][c] = s
               \/ connected[n][c] # s /\ connected'[n][c] = s
               \/ sockets[c][n] # s /\ sockets'[c][n] = s
               \/ nsps[c][n] # s /\ nsps'[c][n] = s
               \/ ~socks[s].onconnect /\ socks'[s].onconnect
               \/ EventsOf(step', "connect", s) # {}
               \/ EventsOf(step', "connection", s) # {} )
             => admit /\ conn[c] = "open"
          /\ admit => /\ AdmitTicks(ticks, s) = {1}
                      /\ AdmitTicks(ticks', s) = {}
          /\ AdmitTicks(ticks, s) = {} => AdmitTicks(ticks', s) = {}
    ]_vars

\* C19's case: the admission callback of a socket has run after the
\* transport had closed.
C19_Witness ==
  /\ step.op.name = "admit"
  /\ conn[step.op.c] = "closed"
  /\ ~socks[step.op.s].onconnect
  /\ AdmitTicks(ticks, step.op.s) = {}
  /\ step.out = <<>> /\ step.ev = <<>>

\* C17. A socket's acks holds an entry for id i exactly when the socket has
\* sent a packet carrying id i and no ACK for i has been dispatched to it
\* since.
C17_AcksArePendingPackets ==
  \A s \in 1..Len(socks) :
    socks[s].acks = socks[s].sent \ Range(socks[s].acked)

\* C15. A callback made by Socket.ack writes at most one ACK or BINARY_ACK
\* packet however often it is called: a call writes at most one frame, a call
\* after the first changes nothing and writes nothing, and its `sent` is
\* never reset.
C15_AckCallbackSendsAtMostOnce ==
  [][\A i \in 1..Len(ackFns) :
       /\ ackFns'[i].writes <= 1
       /\ ackFns[i].sent => ackFns'[i].sent
       /\ ackFns'[i].writes # ackFns[i].writes
          => step'.op.name = "ack()" /\ step'.op.fn = i
       /\ (step'.op.name = "ack()" /\ step'.op.fn = i)
          => /\ \A k \in 1..Len(step'.out) :
                  /\ step'.out[k].pkt.type \in {"ACK", "BINARY_ACK"}
                  /\ step'.out[k].pkt.id = ackFns[i].id
             /\ Len(step'.out) = ackFns'[i].writes - ackFns[i].writes
             /\ ackFns[i].sent
                => UNCHANGED progVars /\ step'.out = <<>> /\ step'.ev = <<>>
    ]_vars

\* C15's case: a callback that has written its ACK packet is called again.
C15_Witness ==
  /\ step.op.name = "ack()"
  /\ step.op.fn \in 1..Len(ackFns)
  /\ ackFns[step.op.fn].id # NoId
  /\ ackFns[step.op.fn].writes = 1
  /\ step.out = <<>>

\* C16. The first call of the callback made by Socket.ack(i), with argument
\* a, sends a packet with id i and data <<a>>, of type BINARY_ACK when a is
\* binary and ACK otherwise.
C16_AckReplyCarriesCallArguments ==
  [][\A i \in 1..Len(ackFns) :
       ( /\ step'.op.name = "ack()" /\ step'.op.fn = i
         /\ ~ackFns[i].sent /\ ackFns[i].id # NoId
         /\ conn[step'.op.c] = "open" )
       => /\ Len(step'.out) = 1
          /\ step'.out[1].pkt.id = ackFns[i].id
          /\ step'.out[1].pkt.nsp = step'.op.n
          /\ step'.out[1].pkt.data = <<step'.op.call.arg>>
          /\ step'.out[1].pkt.type =
               (IF step'.op.call.arg = "binary" THEN "BINARY_ACK" ELSE "ACK")
    ]_vars

\* C20. Client.packet never writes to a transport that is not open, whether
\* the packet is encoded there, comes pre-encoded, or leaves the encoder after
\* the transport has closed; and an emit on a socket whose transport is not
\* open writes nothing, throws nothing and changes no state.
C20_NoWriteUnlessOpen ==
  [][/\ step'.late = 0
     /\ \A s \in 1..Len(socks) :
          ( /\ step'.op.name = "emit" /\ step'.op.s = s
            /\ conn[socks[s].client] # "open"
            /\ step'.op.call \in {EmitCall(<<>>, "x", "text", FALSE, AllWritable),
                                  EmitCall(<<>>, "x", "binary", FALSE, AllWritable)} )
          => /\ step'.out = <<>> /\ step'.thrown = NoErr
             /\ UNCHANGED progVars
    ]_vars

\* C21. When decoder.add throws on a frame, Client.ondata catches the error,
\* every socket in Client.sockets gets onerror(err) before anything is
\* closed, Client.onclose runs once with the reason 'client error' so that
\* each of those sockets emits 'disconnect' with that reason, Client.sockets
\* and Client.nsps end empty, the transport is no longer open, and the
\* Client no longer listens to the transport.
C21_DecoderErrorClosesConnection ==
  [][\A c \in Clients :
       (step'.op.name = "malformed" /\ step'.op.c = c)
       => LET had == Range(KeysOf(sockets[c], NspOrder))
              e == step'.ev
              erred == {e[i].sock : i \in {k \in 1..Len(e) : e[k].name = "error"}}
          IN /\ step'.caught = "decode error" /\ step'.thrown = NoErr
             /\ erred \in {had, {}}
             /\ \A i \in 1..Len(e) : e[i].name = "error" => e[i].arg = step'.caught
             /\ \A i, j \in 1..Len(e) :
                  (e[i].name = "error" /\ e[j].name = "disconnect") => i < j
             /\ Len(step'.closes) = 1
             /\ step'.closes[1].reason = "client error"
             /\ step'.closes[1].had = had
             /\ \A s \in had : \E i \in 1..Len(e) :
                  e[i].name = "disconnect" /\ e[i].sock = s /\ e[i].arg = "client error"
             /\ sockets'[c] = NoSockets /\ nsps'[c] = NoSockets
             /\ conn'[c] # "open"
             /\ ~listening'[c] /\ ~decoder'[c]
    ]_vars

\* C22. When the last socket of a client leaves through an explicit
\* disconnect -- a DISCONNECT packet from the peer, or socket.disconnect()
\* without close -- the client is destroyed: its transport is closed and it
\* no longer listens to the transport and the decoder.
C22_LastExplicitDisconnectDestroysClient ==
  [][\A c \in Clients :
       ( /\ step'.op.name \in {"DISCONNECT", "disconnect()"}
         /\ step'.op.c = c
         /\ sockets[c] # NoSockets
         /\ sockets'[c] = NoSockets )
       => /\ conn'[c] # "open"
          /\ ~listening'[c]
    ]_vars

\* C23, as stated. Every 'connect' and 'connection' event of an admission is
\* emitted with the socket connected and present in Namespace.sockets and
\* Namespace.connected, whatever an earlier listener of the admission did.
C23_EveryListenerSeesConnectedSocket ==
  [][step'.op.name = "admit"
     => \A i \in 1..Len(step'.ev) :
          LET e == step'.ev[i]
          IN e.name \in {"connect", "connection"}
             => e.sock = step'.op.s /\ e.live /\ e.inNsp /\ e.inConnected
    ]_vars

\* C23, amended. An admission emits 'connect' first, with the socket
\* connected and present in Namespace.sockets and Namespace.connected, and
\* every later 'connect' or 'connection' listener sees the socket so unless a
\* listener before it in the same admission has closed the socket.
C23_ListenersSeeConnectedSocketUntilClosed ==
  [][step'.op.name = "admit"
     => /\ \A i \in 1..Len(step'.ev) :
             LET e == step'.ev[i]
             IN ( /\ e.name \in {"connect", "connection"}
                  /\ \A j \in 1..(i - 1) :
                       ~(step'.ev[j].name = "disconnect" /\ step'.ev[j].sock = e.sock) )
                => e.sock = step'.op.s /\ e.live /\ e.inNsp /\ e.inConnected
        /\ step'.ev # <<>>
           => /\ step'.ev[1].name = "connect"
              /\ step'.ev[1].live /\ step'.ev[1].inNsp /\ step'.ev[1].inConnected
              /\ step'.ev[Len(step'.ev)].name = "connection"
    ]_vars

\* C23's case: the 'connect' listener of an admission got a connected socket
\* and called socket.disconnect(), and 'connection' was emitted after it.
C23_Witness ==
  /\ step.op.name = "admit"
  /\ Len(step.ev) = 3
  /\ step.ev[1].name = "connect" /\ step.ev[1].sock = step.op.s
  /\ step.ev[1].live /\ step.ev[1].inNsp /\ step.ev[1].inConnected
  /\ step.ev[2].name = "disconnect" /\ step.ev[2].sock = step.op.s
  /\ step.ev[2].arg = "server namespace disconnect"
  /\ step.ev[3].name = "connection" /\ step.ev[3].sock = step.op.s
  /\ ~step.ev[3].live

\* C24. Every socket's adapter is the Adapter its namespace has now, also
\* once Server.adapter(factory) has replaced the adapter of a running
\* server, so that what Socket.join, leave and leaveAll write is what
\* Namespace.emit reads.
C24_SocketAdapterIsNamespaceAdapter ==
  \A s \in 1..Len(socks) :
    socks[s].adapter = NspAdapter(State, socks[s].nsp)

\* The rooms the socket's adapter records for the socket's id.
AdapterRooms(s) ==
  {r \in Rooms : <<r, socks[s].client>> \in adapter[socks[s].nsp][socks[s].adapter]}

NoAdapterCallbackPending ==
  \A i \in 1..Len(ticks) : ticks[i].kind \notin {"joined", "left"}

RoomsInSync ==
  NoAdapterCallbackPending
  => \A s \in 1..Len(socks) :
       /\ socks[s].rooms = AdapterRooms(s)
       /\ ~socks[s].connected => socks[s].rooms = {}

\* C25. Whenever no adapter callback is queued, each socket's rooms are the
\* rooms its adapter records for its id, and a closed socket has no room; and
\* socket.leave(r) followed at once by socket.join(r) leaves the socket in r
\* in the adapter.
C25_RoomsMatchAdapter ==
  [][/\ RoomsInSync'
     /\ \A s \in 1..Len(socks) :
          (step'.op.name = "leave;join" /\ step'.op.s = s)
          => R \in AdapterRooms(s)'
    ]_vars

====
